---- MODULE Spec2Model ----
(***************************************************************************)
(* Verification model of algoRWA: the post-optimisation risk guardrails    *)
(* (rwaengine/execution/risk_manager.py), the walk-forward backtester      *)
(* (rwaengine/analysis/backtester.py), the view generators                 *)
(* (rwaengine/strategy/generators) and the Black-Litterman engine          *)
(* (rwaengine/core/engine.py, rwaengine/core/bl_math.py).                  *)
(*                                                                         *)
(* Python floats are modelled as exact rationals <<n, d>> in lowest terms  *)
(* with d > 0, so "equal" below means equal in real arithmetic; rounding   *)
(* error of IEEE doubles is outside the model.                             *)
(***************************************************************************)
EXTENDS Integers, Sequences, FiniteSets, TLC

(***************************************************************************)
(* Exact rational arithmetic.                                              *)
(***************************************************************************)
Abs(n) == IF n < 0 THEN -n ELSE n

RECURSIVE GCD(_, _)
GCD(a, b) == IF b = 0 THEN a ELSE GCD(b, a % b)

Rat(n, d) ==
    LET g == GCD(Abs(n), Abs(d))
        s == IF d < 0 THEN -1 ELSE 1
    IN  IF n = 0 THEN <<0, 1>> ELSE <<(s * n) \div g, (s * d) \div g>>

Zero == <<0, 1>>
One == <<1, 1>>

\* Sums and products reduce by common factors before multiplying, so that
\* intermediate values stay small.
RAdd(x, y) ==
    LET g == GCD(x[2], y[2])
    IN  Rat(x[1] * (y[2] \div g) + y[1] * (x[2] \div g), (x[2] \div g) * y[2])
RNeg(x) == <<-x[1], x[2]>>
RSub(x, y) == RAdd(x, RNeg(y))
RMul(x, y) ==
    LET a == Rat(x[1], y[2])
        b == Rat(y[1], x[2])
    IN  Rat(a[1] * b[1], a[2] * b[2])
RDiv(x, y) == RMul(x, Rat(y[2], y[1]))
RLt(x, y) == RSub(x, y)[1] < 0
RLe(x, y) == RSub(x, y)[1] <= 0
RGt(x, y) == RLt(y, x)
RMax(x, y) == IF RLt(x, y) THEN y ELSE x
RMin(x, y) == IF RLt(y, x) THEN y ELSE x

RECURSIVE SumSeq(_)
SumSeq(s) == IF s = <<>> THEN Zero ELSE RAdd(s[1], SumSeq(Tail(s)))

(***************************************************************************)
(* Risk guardrails: PortfolioRiskManager.                                  *)
(***************************************************************************)
CASH == "USDC"

\* The dust threshold 0.01 of the dust filter.
DUST == Rat(1, 100)

\* weights[weights < 0.01] = 0.0
DustFilterLe(w) == [i \in DOMAIN w |-> IF RLe(w[i], DUST) THEN Zero ELSE w[i]]
DustFilter(w) == [i \in DOMAIN w |-> IF RLt(w[i], DUST) THEN Zero ELSE w[i]]

\* if weights.sum() > 0: weights = weights / weights.sum()
Renormalize(w) ==
    LET S == SumSeq(w)
    IN  IF RGt(S, Zero) THEN [i \in DOMAIN w |-> RDiv(w[i], S)] ELSE w

\* A manager that leaves the renormalised weights fully invested.
ScaleExposureFull(w, cash_buffer) == w

\* weights = weights * (1.0 - self.cash_buffer)
ScaleExposure(w, cash_buffer) ==
    [i \in DOMAIN w |-> RMul(w[i], RSub(One, cash_buffer))]

\* A cap that hands the truncated excess to the uncapped positions.
ApplyCapRedistribute(w, max_weight) ==
    LET over == {i \in DOMAIN w : RGt(w[i], max_weight)}
        excess == SumSeq([i \in DOMAIN w |->
                     IF i \in over THEN RSub(w[i], max_weight) ELSE Zero])
        n == Cardinality(DOMAIN w \ over)
    IN  [i \in DOMAIN w |->
            IF i \in over THEN max_weight
            ELSE RAdd(w[i], RDiv(excess, Rat(n, 1)))]

\* A cap that only logs the concentrated positions.
ApplyCapLogOnly(w, max_weight) == w

\* weights[weights > self.max_weight] = self.max_weight
ApplyCap(w, max_weight) ==
    [i \in DOMAIN w |-> IF RGt(w[i], max_weight) THEN max_weight ELSE w[i]]

\* Position of a label in a ticker list (0 when absent).
IndexOf(tickers, t) ==
    IF \E i \in DOMAIN tickers : tickers[i] = t
    THEN CHOOSE i \in DOMAIN tickers : tickers[i] = t
    ELSE 0

\* weights["USDC"] = usdc_weight on a Series: an existing label is overwritten
\* in place, a new label is appended.
SetCashLabels(tickers) ==
    IF IndexOf(tickers, CASH) = 0 THEN Append(tickers, CASH) ELSE tickers

SetCashValues(tickers, w, usdc_weight) ==
    IF IndexOf(tickers, CASH) = 0
    THEN Append(w, usdc_weight)
    ELSE [i \in DOMAIN w |-> IF tickers[i] = CASH THEN usdc_weight ELSE w[i]]

\* The equity weights after steps 1-4 (before the USDC entry is written).
GuardedWeights(result, cash_buffer, max_weight) ==
    ApplyCap(ScaleExposure(Renormalize(DustFilter(result.weights)), cash_buffer),
             max_weight)

apply_guardrails(result, cash_buffer, max_weight) ==
    LET weights == GuardedWeights(result, cash_buffer, max_weight)
        final_equity_sum == SumSeq(weights)
        usdc_weight == RMax(RSub(One, final_equity_sum), Zero)
    IN  [tickers |-> SetCashLabels(result.tickers),
         weights |-> SetCashValues(result.tickers, weights, usdc_weight),
         expected_return |-> RMul(result.expected_return, final_equity_sum),
         volatility |-> RMul(result.volatility, final_equity_sum),
         sharpe_ratio |-> result.sharpe_ratio]

\* A call that worked on the caller's lists: the dust filter, the scaling,
\* the cap and the USDC entry would all show in the argument.
ArgumentSharedWithSeries(result, cash_buffer, max_weight) ==
    LET out == apply_guardrails(result, cash_buffer, max_weight)
    IN  [result EXCEPT !.tickers = out.tickers, !.weights = out.weights]

\* What the call does to its argument: pd.Series(data=result.weights,
\* index=result.tickers) copies both lists, every later assignment writes to
\* that Series, and the return value is a new OptimizationResult.
ArgumentAfterCall(result, cash_buffer, max_weight) == result

(***************************************************************************)
(* State.                                                                  *)
(***************************************************************************)
VARIABLES
    \* PortfolioRiskManager: self.cash_buffer, self.max_weight, the
    \* OptimizationResult about to be passed, the argument and the return
    \* value of the latest apply_guardrails call, the number of calls, and
    \* the argument object as the caller finds it once the call has returned
    \* (arg_after).
    cash_buffer, max_weight, result, arg, ret, calls, arg_after,
    \* Backtester: self.prices (its index full_dates and its columns), the
    \* arguments of run (start_date, rebalance_freq_days), and run's locals:
    \* rebalance_dates, the position in the loop (pc, i, and k strategies
    \* already invoked at this boundary), hist_data, current_weights,
    \* weights_history,
    \* strategy_returns, what each strategy's rebalance did at this boundary
    \* (outcome), and the two return values result_df and final_weights.
    full_dates, prices, start_date, rebalance_freq_days, rebalance_dates,
    pc, i, k, hist_data, current_weights, weights_history, strategy_returns,
    outcome, result_df, final_weights,
    \* View generators: which generator runs (vg_kind), what it reads
    \* (vg_input: the raw dicts, the model's predictions or the LLM's
    \* scorecards), the list generate_views returns (vg_views) and the
    \* position of the call (vg_pc).
    vg_kind, vg_input, vg_views, vg_pc,
    \* BlackLittermanEngine: self.S, the arguments of run_optimization
    \* (market_caps, views), its locals mcaps, market_prior, Q, P,
    \* posterior_rets and posterior_cov, whether a BlackLittermanModel was
    \* built (bl_model), the position in the method (bl_pc), and how the call
    \* ended: the returned OptimizationResult (bl_result) or the exception
    \* that left the method (bl_raised); and the outcome of a direct call of
    \* bl_math.compute_market_implied_prior on the same inputs (np_prior).
    self_S, market_caps, views, mcaps, market_prior, Q, P, posterior_rets,
    posterior_cov, bl_model, bl_pc, bl_result, bl_raised, np_prior,
    \* main.run_production_pipeline: args.no_risk, the locals raw_result,
    \* final_allocation and payload, and the position in the function.
    no_risk, raw_result, final_allocation, payload, mn_pc,
    \* MarketData(**md_record): the keyword arguments, the fields validated
    \* so far (info.data), the fields that failed, the position in the field
    \* list and the state of the construction; and the columns of the
    \* DataFrame given to validate_schema.
    md_record, md_data, md_errors, md_pos, md_pc, md_columns,
    \* One rebalance boundary of Backtester.run over a list of BLStrategy
    \* objects: the list (bd_strategies), what run_optimization does for each
    \* of them at this boundary (bd_engine), the strategies already called
    \* (bd_done), current_weights and weights_history (bd_cw, bd_wh) and
    \* their values when the boundary began (bd_prev).
    bd_strategies, bd_engine, bd_done, bd_cw, bd_wh, bd_prev

rmVars == <<cash_buffer, max_weight, result, arg, ret, calls, arg_after>>
btVars == <<full_dates, prices, start_date, rebalance_freq_days,
            rebalance_dates,
            pc, i, k, hist_data, current_weights, weights_history,
            strategy_returns, outcome, result_df, final_weights>>
vgVars == <<vg_kind, vg_input, vg_views, vg_pc>>
blVars == <<self_S, market_caps, views, mcaps, market_prior, Q, P,
            posterior_rets, posterior_cov, bl_model, bl_pc, bl_result,
            bl_raised, np_prior>>
mnVars == <<no_risk, raw_result, final_allocation, payload, mn_pc>>
mdVars == <<md_record, md_data, md_errors, md_pos, md_pc, md_columns>>
bdVars == <<bd_strategies, bd_engine, bd_done, bd_cw, bd_wh, bd_prev>>
appVars == <<mnVars, mdVars, bdVars>>
vars == <<rmVars, btVars, vgVars, blVars, appVars>>

\* No view generator is running.
GeneratorsIdle ==
    /\ vg_kind = "none"
    /\ vg_input = <<>>
    /\ vg_views = <<>>
    /\ vg_pc = "idle"

\* No BlackLittermanEngine exists.
EngineIdle ==
    /\ self_S = <<>>
    /\ market_caps = <<>>
    /\ views = <<>>
    /\ mcaps = <<>>
    /\ market_prior = <<>>
    /\ Q = <<>>
    /\ P = <<>>
    /\ posterior_rets = <<>>
    /\ posterior_cov = <<>>
    /\ bl_model = "none"
    /\ bl_pc = "idle"
    /\ bl_result = <<>>
    /\ bl_raised = "none"
    /\ np_prior = <<>>

\* The production pipeline is not running.
PipelineIdle ==
    /\ no_risk = FALSE
    /\ raw_result = <<>>
    /\ final_allocation = <<>>
    /\ payload = <<>>
    /\ mn_pc = "idle"

\* No MarketData record is being constructed and no frame validated.
MarketDataIdle ==
    /\ md_record = <<>>
    /\ md_data = <<>>
    /\ md_errors = {}
    /\ md_pos = 0
    /\ md_pc = "idle"
    /\ md_columns = {}

\* No rebalance boundary is being processed on its own.
BoundaryIdle ==
    /\ bd_strategies = <<>>
    /\ bd_engine = <<>>
    /\ bd_done = {}
    /\ bd_cw = <<>>
    /\ bd_wh = <<>>
    /\ bd_prev = <<>>

\* Neither the pipeline, nor a MarketData construction, nor a lone boundary.
ApplicationsIdle == PipelineIdle /\ MarketDataIdle /\ BoundaryIdle

NoResult == [tickers |-> <<>>, weights |-> <<>>, expected_return |-> Zero,
             volatility |-> Zero, sharpe_ratio |-> Zero]

\* Input weights: a negative value, zero, dust (0.005), the dust threshold
\* itself (0.01), ordinary positions and a near-total position (0.995).
WeightVals ==
    {Rat(-1, 4), Zero, Rat(1, 200), Rat(1, 100), Rat(1, 5), Rat(1, 2),
     Rat(199, 200)}

\* Ticker lists: an equity-only universe and one that already has USDC.
TickerLists == {<<"A", "B", "C">>, <<"A", "B", "USDC">>}

\* __init__ stores whatever it is given: values of cash_buffer_pct in [0,1]
\* and of max_weight_pct in (0,1], and one value of each outside that range.
CashBufferVals == {Zero, Rat(1, 20), Rat(1, 2), One, Rat(6, 5)}
MaxWeightVals == {Rat(3, 10), Rat(1, 2), One, Zero}

\* cash_buffer_pct in [0,1] and max_weight_pct in (0,1].
ValidConfig ==
    /\ RLe(Zero, cash_buffer) /\ RLe(cash_buffer, One)
    /\ RLt(Zero, max_weight) /\ RLe(max_weight, One)

RawResults ==
    {[tickers |-> t, weights |-> <<a, b, c>>, expected_return |-> Rat(1, 10),
      volatility |-> Rat(1, 5), sharpe_ratio |-> Rat(3, 10)] :
        t \in TickerLists, a \in WeightVals, b \in WeightVals, c \in WeightVals}

\* No backtest is running.
BacktesterIdle ==
    /\ full_dates = <<>>
    /\ prices = <<>>
    /\ start_date = 0
    /\ rebalance_freq_days = 1
    /\ rebalance_dates = <<>>
    /\ pc = "idle"
    /\ i = 0
    /\ k = 0
    /\ hist_data = {}
    /\ current_weights = <<>>
    /\ weights_history = <<>>
    /\ strategy_returns = <<>>
    /\ outcome = <<>>
    /\ result_df = <<>>
    /\ final_weights = <<>>

InitRM ==
    /\ ApplicationsIdle
    /\ cash_buffer \in CashBufferVals
    /\ max_weight \in MaxWeightVals
    /\ result \in RawResults
    /\ arg = NoResult
    /\ ret = NoResult
    /\ calls = 0
    /\ arg_after = NoResult
    /\ BacktesterIdle
    /\ GeneratorsIdle
    /\ EngineIdle

\* risk_manager.apply_guardrails(raw_result) on an optimizer result.
ApplyGuardrails ==
    /\ calls = 0
    /\ arg' = result
    /\ arg_after' = ArgumentAfterCall(result, cash_buffer, max_weight)
    /\ ret' = apply_guardrails(result, cash_buffer, max_weight)
    /\ result' = ret'
    /\ calls' = 1
    /\ UNCHANGED <<cash_buffer, max_weight, btVars, vgVars, blVars, appVars>>

\* The outer call of apply_guardrails(apply_guardrails(x)): the first call's
\* return value, USDC entry included, is passed in again.
ReapplyGuardrails ==
    /\ calls = 1
    /\ arg' = result
    /\ arg_after' = ArgumentAfterCall(result, cash_buffer, max_weight)
    /\ ret' = apply_guardrails(result, cash_buffer, max_weight)
    /\ result' = ret'
    /\ calls' = calls + 1
    /\ UNCHANGED <<cash_buffer, max_weight, btVars, vgVars, blVars, appVars>>

NextRM == ApplyGuardrails \/ ReapplyGuardrails

SpecRM == InitRM /\ [][NextRM]_vars

(***************************************************************************)
(* Claims about apply_guardrails.                                          *)
(***************************************************************************)
\* The weight the returned allocation gives to a ticker (0 when absent).
RetWeight(t) ==
    IF IndexOf(ret.tickers, t) = 0 THEN Zero ELSE ret.weights[IndexOf(ret.tickers, t)]

\* The argument's weights after dust filter, renormalisation and scaling,
\* before the cap.
ArgScaled == ScaleExposure(Renormalize(DustFilter(arg.weights)), cash_buffer)

\* C1: for every OptimizationResult passed to apply_guardrails and every
\* cash_buffer_pct in [0,1] and max_weight_pct in (0,1], the returned weights
\* (equity tickers plus USDC) sum to 1.
C1_WeightsSumToOne ==
    (calls >= 1 /\ ValidConfig) => SumSeq(ret.weights) = One

\* C2: after apply_guardrails no ticker other than USDC has a weight greater
\* than max_weight_pct, for any input and any configuration.
C2_CapRespected ==
    calls >= 1 =>
        \A j \in DOMAIN ret.tickers :
            ret.tickers[j] # CASH => RLe(ret.weights[j], max_weight)

\* C2 witness: a position that exceeded the cap after scaling was returned.
C2_Witness ==
    /\ calls >= 1
    /\ \E j \in DOMAIN arg.tickers :
          /\ arg.tickers[j] # CASH
          /\ RGt(ArgScaled[j], max_weight)
          /\ ret.weights[j] = max_weight

\* C3: apply_guardrails is idempotent: applied to its own output (USDC entry
\* included) it returns the same tickers and the same weights.
C3_Idempotent ==
    calls >= 2 => (ret.tickers = arg.tickers /\ ret.weights = arg.weights)

\* The total weight the cap truncated in the latest call.
Truncated ==
    SumSeq([j \in DOMAIN ArgScaled |->
        IF RGt(ArgScaled[j], max_weight) THEN RSub(ArgScaled[j], max_weight)
        ELSE Zero])

\* C4: the weight removed from a capped asset goes only to cash: every asset
\* whose scaled weight is at most max_weight_pct keeps exactly its
\* dust-filtered, renormalised weight times (1 - cash_buffer_pct), and the
\* USDC weight is the uncapped residual plus the total amount truncated.
C4_ExcessToCashOnly ==
    calls >= 1 =>
        /\ \A j \in DOMAIN arg.tickers :
              (arg.tickers[j] # CASH /\ RLe(ArgScaled[j], max_weight))
                  => ret.weights[j] = ArgScaled[j]
        /\ RetWeight(CASH) =
              RAdd(RMax(RSub(One, SumSeq(ArgScaled)), Zero), Truncated)

\* C4 witness: one asset was capped while another kept a positive weight.
C4_Witness ==
    /\ calls >= 1
    /\ \E j, m \in DOMAIN arg.tickers :
          /\ arg.tickers[j] # CASH /\ arg.tickers[m] # CASH
          /\ RGt(ArgScaled[j], max_weight)
          /\ RGt(ArgScaled[m], Zero) /\ RLe(ArgScaled[m], max_weight)

\* The dust-filtered input of the latest call, written out from the claim:
\* a weight below 0.01 becomes 0, a weight of exactly 0.01 is kept.
C5_Filtered ==
    [j \in DOMAIN arg.weights |->
        IF arg.weights[j][1] * 100 < arg.weights[j][2] THEN Zero
        ELSE arg.weights[j]]

ScenarioB ==
    /\ arg.tickers = <<"A", "B", "C">>
    /\ arg.weights = <<Rat(1, 200), Rat(199, 200), Zero>>
    /\ cash_buffer = Rat(1, 20)
    /\ max_weight = Rat(3, 10)

\* C5: the steps run in the order dust filter, renormalise, scale, cap, cash
\* residual: each output equity weight is min(max_weight_pct,
\* (1 - cash_buffer_pct) * w_i / S) with w_i the dust-filtered input and S
\* their sum (0 when S = 0), and Scenario B yields 0, 0.30, 0 and cash 0.70.
C5_StepOrder ==
    calls >= 1 =>
        /\ \A j \in DOMAIN arg.tickers :
              arg.tickers[j] # CASH =>
                  ret.weights[j] =
                      IF SumSeq(C5_Filtered)[1] > 0
                      THEN RMin(max_weight,
                                RDiv(RMul(RSub(One, cash_buffer), C5_Filtered[j]),
                                     SumSeq(C5_Filtered)))
                      ELSE RMin(max_weight, Zero)
        /\ ScenarioB =>
              /\ ret.tickers = <<"A", "B", "C", "USDC">>
              /\ ret.weights = <<Zero, Rat(3, 10), Zero, Rat(7, 10)>>

\* C5 witness: Scenario B has been run.
C5_Witness == calls = 1 /\ ScenarioB

(***************************************************************************)
(* Walk-forward backtester: Backtester.run.                                *)
(*                                                                         *)
(* Dates are calendar-day numbers.  Rows of the price matrix are numbered  *)
(* 1..NRows (position p of the pandas index is row p + 1).                 *)
(***************************************************************************)
\* Number of rows of the price matrix.
NRows == 103

\* timedelta(days=365)
LOOKBACK_DAYS == 365

\* len(hist_data) > 100
MIN_HISTORY == 100

Rows == 1..NRows

\* Time axes: one row per calendar day, and one whose two oldest rows lie more
\* than eight months before the rest, so that the 365-day window cuts rows off
\* (row 101 is dated 365, exactly 365 days after row 1).
DailyAxis == [r \in Rows |-> r]
GappedAxis == [r \in Rows |-> IF r <= 2 THEN r - 1 ELSE r + 264]
Axes == {DailyAxis, GappedAxis}

\* Price matrices over the columns A and B: constant prices, and prices that
\* move every day.
Columns == {"A", "B"}
FlatPrices == [t \in Columns |-> [r \in Rows |-> IF t = "A" THEN 2 ELSE 3]]
ZigzagPrices ==
    [t \in Columns |-> [r \in Rows |->
        IF t = "A" THEN (IF r % 2 = 0 THEN 2 ELSE 1)
        ELSE (IF r % 3 = 0 THEN 1 ELSE 2)]]
PriceMatrices == {FlatPrices, ZigzagPrices}

\* start_date arguments and rebalance_freq_days arguments.
StartDates == {99, 100, 101, 134, 363, 364, 365}
RebalanceFreqs == {1, 2, 3, 50}

\* Bound on the number of rebalance boundaries of a run.
MaxBoundaries == 6

\* The registered strategies, by name, in list order.
Strategies == <<"S1", "S2">>
Names == {Strategies[j] : j \in DOMAIN Strategies}

\* What a call of strat.rebalance(hist_data) can do: raise, return an empty
\* mapping, or return target weights (possibly naming USDC and a ticker the
\* price matrix does not have).
CashOnly == (CASH :> One)
EmptyWeights == <<>>
Outcomes ==
    {[kind |-> "raise", weights |-> EmptyWeights],
     [kind |-> "return", weights |-> EmptyWeights],
     [kind |-> "return", weights |-> ("A" :> Rat(1, 2)) @@ ("B" :> Rat(1, 2))],
     [kind |-> "return",
      weights |-> ("A" :> Rat(3, 10)) @@ ("ZZZ" :> Rat(1, 5)) @@ (CASH :> Rat(1, 2))]}

\* full_dates.get_indexer([start_date], method="nearest")[0]: the row whose
\* date is nearest to d; of two equally near rows the later one.
NearestRow(dates, d) ==
    CHOOSE r \in Rows :
        /\ \A q \in Rows : Abs(dates[r] - d) <= Abs(dates[q] - d)
        /\ \A q \in Rows : Abs(dates[q] - d) = Abs(dates[r] - d) => q <= r

\* full_dates[start_idx::rebalance_freq_days]: the dates of every
\* rebalance_freq_days-th row from the start row on.
RebalanceDates(dates, d, freq) ==
    LET first == NearestRow(dates, d)
        n == ((NRows - first) \div freq) + 1
    IN  [j \in 1..n |-> dates[first + (j - 1) * freq]]

\* range(len(rebalance_dates) - 1)
NumPeriods == Len(rebalance_dates) - 1

period_start == rebalance_dates[i + 1]
period_end == rebalance_dates[i + 2]

\* A lookback slice without an upper end.
HistRowsOpenEnd(t) == {r \in Rows : t - LOOKBACK_DAYS <= full_dates[r]}

\* self.prices.loc[period_start - timedelta(days=365) : period_start], as
\* rows: label slicing keeps both ends.
HistRows(t) ==
    {r \in Rows : t - LOOKBACK_DAYS <= full_dates[r] /\ full_dates[r] <= t}

\* A history test that accepts exactly MIN_HISTORY observations.
EnoughHistoryGe(rows) == Cardinality(rows) >= MIN_HISTORY

\* if len(hist_data) > 100
EnoughHistory(rows) == Cardinality(rows) > MIN_HISTORY

\* A failure handler that falls back to cash.
CommitOrReset(cw, s, o) ==
    IF o.kind = "return" /\ o.weights # EmptyWeights
    THEN [cw EXCEPT ![s] = o.weights]
    ELSE IF o.kind = "raise" THEN [cw EXCEPT ![s] = CashOnly] ELSE cw

CommitEmpty(cw, s, o) ==
    IF o.kind = "return" THEN [cw EXCEPT ![s] = o.weights] ELSE cw

\* try: new_weights = strat.rebalance(hist_data); if new_weights:
\* current_weights[strat.name] = new_weights ... except Exception: log.
Commit(cw, s, o) ==
    IF o.kind = "return" /\ o.weights # EmptyWeights
    THEN [cw EXCEPT ![s] = o.weights]
    ELSE cw

\* An audit trail that records every call that returned, empty or not.
SnapshotEveryReturn(wh, s, o, t) ==
    IF o.kind = "return"
    THEN [wh EXCEPT ![s] = Append(@, [Date |-> t, weights |-> o.weights])]
    ELSE wh

\* record = new_weights.copy(); record["Date"] = period_start;
\* weights_history[strat.name].append(record)
Snapshot(wh, s, o, t) ==
    IF o.kind = "return" /\ o.weights # EmptyWeights
    THEN [wh EXCEPT ![s] = Append(@, [Date |-> t, weights |-> o.weights])]
    ELSE wh

OutcomeKind(o) ==
    IF o.kind = "raise" THEN "raised"
    ELSE IF o.weights = EmptyWeights THEN "empty" ELSE "committed"

\* A period slice that stops before the closing boundary.
PeriodRowsHalfOpen(a, b) == {r \in Rows : a <= full_dates[r] /\ full_dates[r] < b}

\* self.prices.loc[period_start:period_end], as rows.
PeriodRows(a, b) == {r \in Rows : a <= full_dates[r] /\ full_dates[r] <= b}

\* The rows of a slice in index order.
SortedRows(S) ==
    [j \in 1..Cardinality(S) |->
        CHOOSE r \in S : Cardinality({q \in S : q < r}) = j - 1]

\* A daily "return" that is the price ratio.
PctChangeRatio(t, rows, j) == Rat(prices[t][rows[j]], prices[t][rows[j - 1]])

\* period_prices.pct_change(): the simple return of column t at the j-th row
\* of the slice against the row before it (j > 1).
PctChange(t, rows, j) ==
    Rat(prices[t][rows[j]] - prices[t][rows[j - 1]], prices[t][rows[j - 1]])

\* The tickers a weight mapping can name, in a fixed order of summation.
TickerOrder == <<"A", "B", "ZZZ", CASH>>

\* A portfolio return that adds the returns up without the weights.
DailyReturnUnweighted(w, rows, j) ==
    SumSeq([n \in DOMAIN TickerOrder |->
        IF /\ TickerOrder[n] \in DOMAIN w
           /\ TickerOrder[n] # CASH
           /\ TickerOrder[n] \in Columns
        THEN PctChange(TickerOrder[n], rows, j)
        ELSE Zero])

\* for ticker, weight in w.items(): if ticker != "USDC" and ticker in
\* period_rets.columns: daily += period_rets[ticker] * weight
DailyReturn(w, rows, j) ==
    SumSeq([n \in DOMAIN TickerOrder |->
        IF /\ TickerOrder[n] \in DOMAIN w
           /\ TickerOrder[n] # CASH
           /\ TickerOrder[n] \in Columns
        THEN RMul(PctChange(TickerOrder[n], rows, j), w[TickerOrder[n]])
        ELSE Zero])

\* period_rets = period_prices.pct_change().dropna() and the weighted series
\* `daily` over its index: the first row of the slice has no return and is
\* dropped.
DailySeries(w, a, b) ==
    LET rows == SortedRows(PeriodRows(a, b))
    IN  [j \in 1..(Len(rows) - 1) |->
            [date |-> full_dates[rows[j + 1]],
             value |-> DailyReturn(w, rows, j + 1)]]

\* pd.concat(ret_list); the list is split in halves to keep the recursion
\* shallow.
RECURSIVE Concat(_)
Concat(list) ==
    IF Len(list) = 0 THEN <<>>
    ELSE IF Len(list) = 1 THEN list[1]
    ELSE LET h == Len(list) \div 2
         IN  Concat(SubSeq(list, 1, h)) \o Concat(SubSeq(list, h + 1, Len(list)))

\* (1 + full_series).cumprod(): entry j is the product of 1 + value over the
\* entries 1..j.  Computed by halves: the running products of the second half
\* are those of the second half alone times the last product of the first.
RECURSIVE CumProd(_)
CumProd(series) ==
    IF Len(series) = 0 THEN <<>>
    ELSE IF Len(series) = 1
    THEN <<[date |-> series[1].date, value |-> RAdd(One, series[1].value)]>>
    ELSE LET h == Len(series) \div 2
             L == CumProd(SubSeq(series, 1, h))
             R == CumProd(SubSeq(series, h + 1, Len(series)))
         IN  L \o [j \in DOMAIN R |->
                      [date |-> R[j].date, value |-> RMul(L[h].value, R[j].value)]]

\* result_df: one column per strategy whose ret_list is not empty.
ResultDf(sr) ==
    [s \in {n \in Names : sr[n] # <<>>} |-> CumProd(Concat(sr[s]))]

\* pd.DataFrame(records).set_index("Date").fillna(0.0): one row per snapshot
\* over the union of the snapshots' tickers, a missing ticker filled with 0.
WeightTable(records) ==
    LET cols == UNION {DOMAIN records[j].weights : j \in DOMAIN records}
    IN  [j \in DOMAIN records |->
            [Date |-> records[j].Date,
             weights |-> [t \in cols |->
                 IF t \in DOMAIN records[j].weights THEN records[j].weights[t]
                 ELSE Zero]]]

\* final_weights: one table per strategy that has records.
FinalWeights(wh) ==
    [s \in {n \in Names : wh[n] # <<>>} |-> WeightTable(wh[s])]

\* No risk manager is in use.
RiskManagerIdle ==
    /\ cash_buffer = Rat(1, 20)
    /\ max_weight = Rat(3, 10)
    /\ result = NoResult
    /\ arg = NoResult
    /\ ret = NoResult
    /\ calls = 0
    /\ arg_after = NoResult

\* Backtester(prices, strategies) followed by the start of run(start_date,
\* rebalance_freq_days), up to the loop.
InitBT ==
    /\ ApplicationsIdle
    /\ RiskManagerIdle
    /\ GeneratorsIdle
    /\ EngineIdle
    /\ full_dates \in Axes
    /\ prices \in PriceMatrices
    /\ start_date \in StartDates
    /\ rebalance_freq_days \in RebalanceFreqs
    /\ rebalance_dates = RebalanceDates(full_dates, start_date, rebalance_freq_days)
    /\ Len(rebalance_dates) <= MaxBoundaries
    /\ pc = "loop"
    /\ i = 0
    /\ k = 0
    /\ hist_data = {}
    /\ current_weights = [s \in Names |-> CashOnly]
    /\ weights_history = [s \in Names |-> <<>>]
    /\ strategy_returns = [s \in Names |-> <<>>]
    /\ outcome = [s \in Names |-> "pending"]
    /\ result_df = <<>>
    /\ final_weights = <<>>

btConst == <<full_dates, prices, start_date, rebalance_freq_days,
             rebalance_dates>>

\* Top of a loop iteration: build the lookback window and decide whether the
\* strategies are rebalanced at this boundary.
BuildLookback ==
    /\ pc = "loop"
    /\ i < NumPeriods
    /\ hist_data' = HistRows(period_start)
    /\ k' = 0
    /\ outcome' = [s \in Names |-> "pending"]
    /\ pc' = IF EnoughHistory(hist_data') THEN "rebalance" ELSE "returns"
    /\ UNCHANGED <<i, current_weights, weights_history, strategy_returns,
                   result_df, final_weights, btConst, rmVars, vgVars, blVars, appVars>>

\* One pass of `for strat in self.strategies`: the next strategy's rebalance
\* is called on hist_data and its outcome handled.
Rebalance ==
    /\ pc = "rebalance"
    /\ \E o \in Outcomes :
          LET s == Strategies[k + 1]
          IN  /\ current_weights' = Commit(current_weights, s, o)
              /\ weights_history' = Snapshot(weights_history, s, o, period_start)
              /\ outcome' = [outcome EXCEPT ![s] = OutcomeKind(o)]
    /\ k' = k + 1
    /\ pc' = IF k + 1 = Len(Strategies) THEN "returns" ELSE "rebalance"
    /\ UNCHANGED <<i, hist_data, strategy_returns, result_df, final_weights,
                   btConst, rmVars, vgVars, blVars, appVars>>

\* The weighted daily returns of the period are appended for every strategy
\* and the loop moves to the next boundary.
AccumulateReturns ==
    /\ pc = "returns"
    /\ strategy_returns' =
          [s \in Names |->
              Append(strategy_returns[s],
                     DailySeries(current_weights[s], period_start, period_end))]
    /\ i' = i + 1
    /\ pc' = "loop"
    /\ UNCHANGED <<k, hist_data, current_weights, weights_history, outcome,
                   result_df, final_weights, btConst, rmVars, vgVars, blVars, appVars>>

\* After the loop: the cumulative-return curves and the weight audit trail.
Assemble ==
    /\ pc = "loop"
    /\ i >= NumPeriods
    /\ result_df' = ResultDf(strategy_returns)
    /\ final_weights' = FinalWeights(weights_history)
    /\ pc' = "done"
    /\ UNCHANGED <<i, k, hist_data, current_weights, weights_history,
                   strategy_returns, outcome, btConst, rmVars, vgVars, blVars, appVars>>

NextBT == BuildLookback \/ Rebalance \/ AccumulateReturns \/ Assemble

SpecBT == InitBT /\ [][NextBT]_vars

(***************************************************************************)
(* Claims about Backtester.run.                                            *)
(***************************************************************************)
\* The series appended for strategy s by the latest AccumulateReturns step.
LastSeries(sr, s) == sr[s][Len(sr[s])]

\* The step that closes a period: the returns are appended and i advances.
ClosesPeriod == pc = "returns" /\ pc' = "loop"

\* C6: when a strategy's rebalance raises at a boundary, its committed
\* weights and snapshot log stay as they were and nobody else's change in that
\* step; the remaining strategies are still called at the same boundary (each
\* ends the boundary with its own outcome); and the loop goes on: the
\* period's returns are accumulated and every later boundary is processed, so
\* a finished run holds one return series per period for every strategy.
C6_FailureIsolated ==
    /\ [][\A s \in Names :
            (outcome[s] = "pending" /\ outcome'[s] = "raised") =>
                /\ current_weights' = current_weights
                /\ weights_history' = weights_history
                /\ i' = i
                /\ pc' = IF k' = Len(Strategies) THEN "returns" ELSE "rebalance"]_vars
    /\ [](pc = "returns" /\ k > 0 =>
            \A s \in Names :
                /\ outcome[s] # "pending"
                /\ outcome[s] = "committed" =>
                      /\ weights_history[s] # <<>>
                      /\ weights_history[s][Len(weights_history[s])].Date = period_start
                      /\ weights_history[s][Len(weights_history[s])].weights
                            = current_weights[s])
    /\ [](pc = "done" =>
            \A s \in Names : Len(strategy_returns[s]) = NumPeriods)

\* C6 witness: at a boundary after the first, S1 raised while holding
\* weights committed earlier, and S2 was still rebalanced and committed.
C6_Witness ==
    /\ pc = "returns"
    /\ outcome["S1"] = "raised"
    /\ outcome["S2"] = "committed"
    /\ current_weights["S1"] # CashOnly

\* C7 as stated: rebalancing is skipped (no strategy invoked) exactly when the
\* lookback slice has fewer than 100 observations; with 100 or more every
\* registered strategy is invoked.
C7_SkipBelow100 ==
    pc = "returns" =>
        /\ (k = 0) <=> (Cardinality(hist_data) < 100)
        /\ Cardinality(hist_data) >= 100 => k = Len(Strategies)

\* C7 amended: rebalancing is skipped (no strategy invoked, all committed
\* weights and snapshot logs persist) exactly when the lookback slice has at
\* most 100 observations; with 101 or more every registered strategy is
\* invoked.
C7_SkipUpTo100 ==
    /\ [](pc = "returns" =>
            /\ (k = 0) <=> (Cardinality(hist_data) <= 100)
            /\ k = 0 => \A s \in Names : outcome[s] = "pending"
            /\ Cardinality(hist_data) > 100 =>
                  /\ k = Len(Strategies)
                  /\ \A s \in Names : outcome[s] # "pending")
    /\ [][(pc = "loop" /\ pc' = "returns") =>
            /\ current_weights' = current_weights
            /\ weights_history' = weights_history]_vars

\* C7 witness: a boundary whose lookback slice has exactly 100 observations
\* was skipped.
C7_Witness == pc = "returns" /\ Cardinality(hist_data) = 100 /\ k = 0

RowOf(d) == CHOOSE r \in Rows : full_dates[r] = d

\* Sum over a set of tickers of weight times the ticker's simple return from
\* row r - 1 to row r.
RECURSIVE C9_WeightedSum(_, _, _)
C9_WeightedSum(T, w, r) ==
    IF T = {} THEN Zero
    ELSE LET t == CHOOSE x \in T : TRUE
         IN  RAdd(RMul(w[t], RDiv(Rat(prices[t][r] - prices[t][r - 1], 1),
                                  Rat(prices[t][r - 1], 1))),
                  C9_WeightedSum(T \ {t}, w, r))

\* C9: for every interval and strategy, the appended series has one entry per
\* trading day dated in (t_i, t_{i+1}], and each entry is the sum over the
\* committed tickers other than USDC that the price matrix has of committed
\* weight times the ticker's daily simple return, with the same committed
\* weights for every day of the interval.
C9_WeightedDailyReturns ==
    [][ClosesPeriod =>
        \A s \in Names :
            LET added == LastSeries(strategy_returns', s)
                days == {r \in Rows : period_start < full_dates[r]
                                      /\ full_dates[r] <= period_end}
                held == (DOMAIN current_weights[s] \cap Columns) \ {"USDC"}
            IN  /\ Len(strategy_returns'[s]) = Len(strategy_returns[s]) + 1
                /\ {added[j].date : j \in DOMAIN added} = {full_dates[r] : r \in days}
                /\ Len(added) = Cardinality(days)
                /\ \A j \in DOMAIN added :
                      added[j].value =
                          C9_WeightedSum(held, current_weights[s], RowOf(added[j].date))]_vars

\* C9 witness: a period was closed for a strategy that holds A, USDC and a
\* ticker the price matrix does not have, with a non-zero portfolio return.
C9_Witness ==
    /\ pc = "loop"
    /\ i >= 1
    /\ \E s \in Names :
          /\ {"A", "ZZZ", "USDC"} \subseteq DOMAIN current_weights[s]
          /\ \E j \in DOMAIN LastSeries(strategy_returns, s) :
                LastSeries(strategy_returns, s)[j].value # Zero

\* Every price of the price matrix is constant over time.
ConstantPrices == \A t \in Columns : \A r \in Rows : prices[t][r] = prices[t][1]

\* C10: when every price is constant over time, every value of every
\* strategy's cumulative-return series is 1.0, whatever weights the
\* strategies returned.
C10_FlatPricesStayAtOne ==
    (pc = "done" /\ ConstantPrices) =>
        \A s \in DOMAIN result_df : \A j \in DOMAIN result_df[s] :
            result_df[s][j].value = One

\* C10 witness: a finished run on constant prices in which a strategy held
\* equity weights over a period.
C10_Witness ==
    /\ pc = "done"
    /\ ConstantPrices
    /\ \E s \in DOMAIN result_df :
          /\ result_df[s] # <<>>
          /\ weights_history[s] # <<>>
          /\ "A" \in DOMAIN current_weights[s]

\* ---------------------------------------------------------------------
\* C11: every strategy starts the run with committed weights {USDC: 1.0},
\* and as long as none of its rebalances has returned a non-empty mapping
\* (its snapshot log is still empty) its committed weights are still
\* {USDC: 1.0} and every daily return accumulated for it is 0.
NeverCommitted(s) == weights_history[s] = <<>>

C11_CashUntilFirstCommit ==
    pc # "idle" =>
        \A s \in Names :
            NeverCommitted(s) =>
                /\ current_weights[s] = CashOnly
                /\ \A n \in DOMAIN strategy_returns[s] :
                      \A j \in DOMAIN strategy_returns[s][n] :
                          strategy_returns[s][n][j].value = Zero

\* C11 witness: on moving prices a strategy whose rebalance was invoked and
\* came back empty-handed has a non-empty period of returns accumulated,
\* while the other strategy has committed equity weights.
C11_Witness ==
    /\ pc = "loop"
    /\ prices = ZigzagPrices
    /\ \E s \in Names : \E u \in Names :
          /\ NeverCommitted(s)
          /\ outcome[s] \in {"raised", "empty"}
          /\ strategy_returns[s] # <<>>
          /\ LastSeries(strategy_returns, s) # <<>>
          /\ ~NeverCommitted(u)
          /\ \E j \in DOMAIN LastSeries(strategy_returns, u) :
                LastSeries(strategy_returns, u)[j].value # Zero

\* ---------------------------------------------------------------------
\* C20: any two consecutive rebalance boundaries are rebalance_freq_days
\* calendar days apart, also on a time axis with gaps.
C20_CalendarStride ==
    pc # "idle" =>
        \A j \in 1..(Len(rebalance_dates) - 1) :
            rebalance_dates[j + 1] - rebalance_dates[j] = rebalance_freq_days

\* ---------------------------------------------------------------------
\* C15: a PortfolioRiskManager whose cash_buffer_pct or max_weight_pct lies
\* outside [0,1] cannot be constructed, so apply_guardrails never runs with
\* such parameters.
InUnitInterval(x) == RLe(Zero, x) /\ RLe(x, One)

C15_ConfigRejectedAtConstruction ==
    calls >= 1 => (InUnitInterval(cash_buffer) /\ InUnitInterval(max_weight))

(***************************************************************************)
(* View generators: ManualViewGenerator, JsonViewGenerator,                *)
(* MLViewGenerator and GeminiViewGenerator, and the InvestorView contract. *)
(***************************************************************************)
RAbs(x) == <<Abs(x[1]), x[2]>>

\* A missing float: None in a scorecard, NaN in a Series.
None == <<0, 0>>

\* current_prices, a Series indexed by ticker, and its index in order.
current_prices ==
    ("A" :> Rat(100, 1)) @@ ("B" :> Rat(50, 1)) @@ ("SPY" :> Rat(400, 1))
PriceIndex == <<"A", "B", "SPY">>
InIndex(t) == \E n \in DOMAIN PriceIndex : PriceIndex[n] = t

ValidInvestorViewAnyConfidence(v) ==
    /\ Len(v.assets) >= 1
    /\ Len(v.weights) >= 1
    /\ Len(v.weights) = Len(v.assets)

\* InvestorView(**v_data): assets and weights have min_length 1, confidence
\* is gt 0 and le 1.0, and weights_must_match_assets compares the lengths.
\* Construction raises a ValidationError when any of these fails.
ValidInvestorView(v) ==
    /\ Len(v.assets) >= 1
    /\ Len(v.weights) >= 1
    /\ RGt(v.confidence, Zero)
    /\ RLe(v.confidence, One)
    /\ Len(v.weights) = Len(v.assets)

\* Raw view dicts as a config file or a caller supplies them: two valid
\* views, a view on a ticker outside the universe, a weights/assets length
\* mismatch, and confidences 0 and 1.2.
RawViewDicts ==
    {[assets |-> <<"A">>, weights |-> <<One>>,
      expected_return |-> Rat(3, 10), confidence |-> Rat(17, 20)],
     [assets |-> <<"A", "B">>, weights |-> <<One, RNeg(One)>>,
      expected_return |-> Rat(1, 50), confidence |-> One],
     [assets |-> <<"ZZZ">>, weights |-> <<One>>,
      expected_return |-> Rat(1, 10), confidence |-> Rat(1, 2)],
     [assets |-> <<"A", "B">>, weights |-> <<One>>,
      expected_return |-> Rat(1, 20), confidence |-> Rat(1, 2)],
     [assets |-> <<"B">>, weights |-> <<One>>,
      expected_return |-> Rat(1, 5), confidence |-> Zero],
     [assets |-> <<"B">>, weights |-> <<One>>,
      expected_return |-> Rat(-1, 10), confidence |-> Rat(6, 5)]}

MaxRawViews == 3
RawViewLists == UNION {[1..m -> RawViewDicts] : m \in 0..MaxRawViews}

\* missing = [a for a in assets if a not in current_prices.index]
AssetsInIndex(v) == \A n \in DOMAIN v.assets : InIndex(v.assets[n])

\* ManualViewGenerator.generate_views: the try/except is inside the loop, so
\* a view that fails validation is logged and the loop goes on.
RECURSIVE ManualViews(_)
ManualViews(raw) ==
    IF raw = <<>> THEN <<>>
    ELSE LET v == Head(raw)
             rest == ManualViews(Tail(raw))
         IN  IF ~AssetsInIndex(v) THEN rest
             ELSE IF ValidInvestorView(v) THEN <<v>> \o rest
             ELSE rest

\* The loop of JsonViewGenerator.generate_views: a view off the index is
\* skipped with `continue`; InvestorView(**v_data) is not guarded inside the
\* loop, so a ValidationError leaves the loop.
RECURSIVE JsonLoop(_, _)
JsonLoop(raw, valid_views) ==
    IF raw = <<>> THEN [kind |-> "return", views |-> valid_views]
    ELSE LET v == Head(raw)
         IN  IF ~AssetsInIndex(v) THEN JsonLoop(Tail(raw), valid_views)
             ELSE IF ValidInvestorView(v)
                  THEN JsonLoop(Tail(raw), Append(valid_views, v))
                  ELSE [kind |-> "raise", views |-> valid_views]

\* JsonViewGenerator.generate_views: [] when the file does not exist; the
\* whole body is one try whose except returns [].
JsonViews(input) ==
    IF input.file = "missing" THEN <<>>
    ELSE IF input.file = "malformed" THEN <<>>
    ELSE LET r == JsonLoop(input.raw_views, <<>>)
         IN  IF r.kind = "raise" THEN <<>> ELSE r.views

JsonFiles == {"ok", "missing", "malformed"}

\* GeminiViewGenerator._CONFIDENCE_MAP
CONFIDENCE_MAP ==
    ("Tier 1" :> Rat(19, 20)) @@ ("Tier 2" :> Rat(4, 5)) @@ ("Tier 3" :> Zero)

\* Python truthiness of an Optional[float]: None and 0.0 are false.
Truthy(x) == x # None /\ x # Zero

NoView == [kind |-> "none"]

\* GeminiViewGenerator._calculate_implied_view: the result is None, a view,
\* or the ValidationError of the InvestorView constructor.
calculate_implied_view(scorecard, current_price_fallback) ==
    IF scorecard.tier = "Tier 3" \/ scorecard.sentiment = "Neutral"
    THEN NoView
    ELSE
      LET confidence == CONFIDENCE_MAP[scorecard.tier]
          current_price ==
              IF Truthy(scorecard.current_price_ref)
              THEN scorecard.current_price_ref
              ELSE current_price_fallback
          target_price == scorecard.target_price
          direction ==
              IF scorecard.sentiment = "Bullish" THEN One ELSE RNeg(One)
          base_move ==
              IF scorecard.tier = "Tier 1" THEN Rat(1, 5) ELSE Rat(1, 10)
          exp_return_annualized ==
              IF Truthy(target_price) /\ RGt(current_price, Zero)
              THEN RMax(RMin(RDiv(RSub(target_price, current_price),
                                  current_price),
                             Rat(4, 5)),
                        Rat(-1, 2))
              ELSE RMul(direction, base_move)
          view == [assets |-> <<scorecard.ticker>>, weights |-> <<One>>,
                   expected_return |-> exp_return_annualized,
                   confidence |-> confidence]
      IN  IF RLt(RAbs(exp_return_annualized), Rat(1, 50)) THEN NoView
          ELSE IF ValidInvestorView(view)
               THEN [kind |-> "view", view |-> view]
               ELSE [kind |-> "raise"]

\* The loop of GeminiViewGenerator.generate_views over result.views.
RECURSIVE LlmLoop(_, _)
LlmLoop(cards, final_views) ==
    IF cards = <<>> THEN [kind |-> "return", views |-> final_views]
    ELSE LET card == Head(cards)
             fallback_price ==
                 IF card.ticker \in DOMAIN current_prices
                 THEN current_prices[card.ticker] ELSE Rat(100, 1)
             r == calculate_implied_view(card, fallback_price)
         IN  IF r.kind = "raise" THEN [kind |-> "raise", views |-> final_views]
             ELSE IF r.kind = "view"
                  THEN LlmLoop(Tail(cards), Append(final_views, r.view))
                  ELSE LlmLoop(Tail(cards), final_views)

\* GeminiViewGenerator.generate_views: the chain call and the loop are in one
\* try whose except returns [].
LlmViews(input) ==
    IF input.chain = "raise" THEN <<>>
    ELSE LET r == LlmLoop(input.cards, <<>>)
         IN  IF r.kind = "raise" THEN <<>> ELSE r.views

\* Scorecards as the LLM chain can return them.
Scorecards ==
    [ticker : {"A", "ZZZ"},
     sentiment : {"Bullish", "Bearish", "Neutral"},
     tier : {"Tier 1", "Tier 2", "Tier 3"},
     target_price : {None, Zero, Rat(101, 1), Rat(110, 1), Rat(300, 1),
                     Rat(10, 1)},
     current_price_ref : {None, Rat(100, 1)}]

HardEvent ==
    [ticker |-> "B", sentiment |-> "Bearish", tier |-> "Tier 1",
     target_price |-> None, current_price_ref |-> None]

LlmInputs ==
    {[chain |-> "raise", cards |-> <<>>], [chain |-> "ok", cards |-> <<>>]}
    \cup {[chain |-> "ok", cards |-> <<c>>] : c \in Scorecards}
    \cup {[chain |-> "ok", cards |-> <<c, HardEvent>>] : c \in Scorecards}

\* MLViewGenerator.NOISE_THRESHOLD and the bounds of final_conf.
NOISE_THRESHOLD == Rat(1, 500)
CONF_FLOOR == Rat(2, 5)
CONF_CAP == Rat(9, 10)

\* MLViewGenerator._amplify_signal; annual_vol stands for
\* volatility * sqrt(252), which has no exact rational value.
amplify_signal(pred_alpha, annual_vol) ==
    IF RLt(RAbs(pred_alpha), NOISE_THRESHOLD) THEN Zero
    ELSE LET direction == IF pred_alpha[1] < 0 THEN RNeg(One) ELSE One
             base_view == Rat(3, 20)
             vol_adj == RMul(annual_vol, Rat(1, 2))
         IN  RMul(direction, RAdd(base_view, vol_adj))

\* What the model yields for one ticker: whether the ticker is a column of
\* self.history, the length of its feature frame, whether training raises,
\* and the prediction, the mean directional accuracy and the volatility.
MlSignals ==
    {[in_history |-> FALSE, rows |-> 120, fit |-> "ok",
      pred_alpha |-> Rat(1, 50), conf_score |-> Rat(1, 2), annual_vol |-> Zero],
     [in_history |-> TRUE, rows |-> 99, fit |-> "ok",
      pred_alpha |-> Rat(1, 50), conf_score |-> Rat(1, 2), annual_vol |-> Zero],
     [in_history |-> TRUE, rows |-> 100, fit |-> "raise",
      pred_alpha |-> Rat(1, 50), conf_score |-> Rat(1, 2), annual_vol |-> Zero],
     [in_history |-> TRUE, rows |-> 100, fit |-> "ok",
      pred_alpha |-> Rat(1, 1000), conf_score |-> One, annual_vol |-> Rat(1, 5)],
     [in_history |-> TRUE, rows |-> 100, fit |-> "ok",
      pred_alpha |-> Rat(1, 50), conf_score |-> Zero, annual_vol |-> Rat(1, 5)],
     [in_history |-> TRUE, rows |-> 120, fit |-> "ok",
      pred_alpha |-> Rat(-1, 50), conf_score |-> One, annual_vol |-> Zero],
     [in_history |-> TRUE, rows |-> 120, fit |-> "ok",
      pred_alpha |-> Rat(1, 500), conf_score |-> Rat(1, 3),
      annual_vol |-> Rat(1, 10)]}

\* tickers = [t for t in current_prices.index if t not in ("SPY", "^VIX")]
MlTickers == SelectSeq(PriceIndex, LAMBDA t : t \notin {"SPY", "^VIX"})
MlInputs == [{MlTickers[n] : n \in DOMAIN MlTickers} -> MlSignals]

\* One iteration of the loop of MLViewGenerator.generate_views.
MlView(ticker, sig) ==
    IF ~sig.in_history THEN NoView
    ELSE IF sig.rows < 100 THEN NoView
    ELSE IF sig.fit = "raise" THEN NoView
    ELSE LET bl_view_return == amplify_signal(sig.pred_alpha, sig.annual_vol)
             final_conf == RMin(RAdd(CONF_FLOOR, sig.conf_score), CONF_CAP)
             view == [assets |-> <<ticker>>, weights |-> <<One>>,
                      expected_return |-> bl_view_return,
                      confidence |-> final_conf]
         IN  IF bl_view_return = Zero THEN NoView
             ELSE IF ValidInvestorView(view)
                  THEN [kind |-> "view", view |-> view]
                  ELSE NoView

RECURSIVE MlLoop(_, _)
MlLoop(tickers, input) ==
    IF tickers = <<>> THEN <<>>
    ELSE LET r == MlView(Head(tickers), input[Head(tickers)])
             rest == MlLoop(Tail(tickers), input)
         IN  IF r.kind = "view" THEN <<r.view>> \o rest ELSE rest

MlViews(input) == MlLoop(MlTickers, input)

GeneratorInputs ==
    {[kind |-> "manual", input |-> [raw_views |-> raw]] : raw \in RawViewLists}
    \cup {[kind |-> "json", input |-> [file |-> f, raw_views |-> raw]] :
            f \in JsonFiles, raw \in RawViewLists}
    \cup {[kind |-> "ml", input |-> [signals |-> m]] : m \in MlInputs}
    \cup {[kind |-> "llm", input |-> inp] : inp \in LlmInputs}

InitVG ==
    /\ ApplicationsIdle
    /\ \E g \in GeneratorInputs : vg_kind = g.kind /\ vg_input = g.input
    /\ vg_views = <<>>
    /\ vg_pc = "call"
    /\ RiskManagerIdle
    /\ BacktesterIdle
    /\ EngineIdle

ManualGenerateViews ==
    /\ vg_pc = "call"
    /\ vg_kind = "manual"
    /\ vg_views' = ManualViews(vg_input.raw_views)
    /\ vg_pc' = "returned"
    /\ UNCHANGED <<vg_kind, vg_input, rmVars, btVars, blVars, appVars>>

JsonGenerateViews ==
    /\ vg_pc = "call"
    /\ vg_kind = "json"
    /\ vg_views' = JsonViews(vg_input)
    /\ vg_pc' = "returned"
    /\ UNCHANGED <<vg_kind, vg_input, rmVars, btVars, blVars, appVars>>

MlGenerateViews ==
    /\ vg_pc = "call"
    /\ vg_kind = "ml"
    /\ vg_views' = MlViews(vg_input.signals)
    /\ vg_pc' = "returned"
    /\ UNCHANGED <<vg_kind, vg_input, rmVars, btVars, blVars, appVars>>

LlmGenerateViews ==
    /\ vg_pc = "call"
    /\ vg_kind = "llm"
    /\ vg_views' = LlmViews(vg_input)
    /\ vg_pc' = "returned"
    /\ UNCHANGED <<vg_kind, vg_input, rmVars, btVars, blVars, appVars>>

NextVG ==
    \/ ManualGenerateViews
    \/ JsonGenerateViews
    \/ MlGenerateViews
    \/ LlmGenerateViews

SpecVG == InitVG /\ [][NextVG]_vars

\* ---------------------------------------------------------------------
\* C14: in ManualViewGenerator and in JsonViewGenerator alike, a raw view
\* that names an asset outside the universe or whose weights and assets
\* differ in length is the only view dropped: every other valid raw view is
\* returned, in its original order.
WellFormed(v) == AssetsInIndex(v) /\ ValidInvestorView(v)

\* The only defects among the raw views are the two the sentence names.
OnlyUniverseOrLengthDefects(raw) ==
    \A n \in DOMAIN raw :
        /\ RGt(raw[n].confidence, Zero)
        /\ RLe(raw[n].confidence, One)
        /\ Len(raw[n].assets) >= 1
        /\ Len(raw[n].weights) >= 1

C14_RecoveredPerView ==
    (/\ vg_pc = "returned"
     /\ vg_kind \in {"manual", "json"}
     /\ (vg_kind = "json" => vg_input.file = "ok")
     /\ OnlyUniverseOrLengthDefects(vg_input.raw_views))
        => vg_views = SelectSeq(vg_input.raw_views, WellFormed)

\* ---------------------------------------------------------------------
\* C19: every InvestorView a generator returns has as many weights as
\* assets and a confidence in (0,1]; no generator returns a view with
\* confidence 0, the LLM generator with its Tier 3 -> 0.00 entry included.
C19_ViewsWellFormed ==
    vg_pc = "returned" =>
        \A n \in DOMAIN vg_views :
            /\ Len(vg_views[n].weights) = Len(vg_views[n].assets)
            /\ RGt(vg_views[n].confidence, Zero)
            /\ RLe(vg_views[n].confidence, One)

\* C19 witness: the LLM returned a Tier 3 scorecard next to a hard event, and
\* generate_views handed back a view for the hard event only.
C19_Witness ==
    /\ vg_pc = "returned"
    /\ vg_kind = "llm"
    /\ Len(vg_input.cards) = 2
    /\ vg_input.cards[1].tier = "Tier 3"
    /\ vg_input.cards[1].sentiment = "Bullish"
    /\ Len(vg_views) = 1
    /\ vg_views[1].assets = <<"B">>

(***************************************************************************)
(* BlackLittermanEngine.run_optimization and the formulas of bl_math.      *)
(* Floats are rationals extended with NaN (<<0, 0>>); the calls into       *)
(* PyPortfolioOpt are modelled by what the library computes.               *)
(***************************************************************************)
NaN == <<0, 0>>
NonFinite(x) == x[2] = 0

\* IEEE arithmetic on finite values and NaN. Market caps are never
\* negative, so the only division by zero that occurs is 0/0.
FAdd(x, y) == IF NonFinite(x) \/ NonFinite(y) THEN NaN ELSE RAdd(x, y)
FSub(x, y) == IF NonFinite(x) \/ NonFinite(y) THEN NaN ELSE RSub(x, y)
FMul(x, y) == IF NonFinite(x) \/ NonFinite(y) THEN NaN ELSE RMul(x, y)
FDiv(x, y) ==
    IF NonFinite(x) \/ NonFinite(y) \/ y = Zero THEN NaN ELSE RDiv(x, y)

RECURSIVE FSum(_)
FSum(s) == IF s = <<>> THEN Zero ELSE FAdd(s[1], FSum(Tail(s)))

\* Series.sum() and Series.mean() skip NaN; the mean of no values is NaN.
Present(s) == SelectSeq(s, LAMBDA x : ~NonFinite(x))
SumSkipNa(s) == FSum(Present(s))
MeanSkipNa(s) ==
    IF Present(s) = <<>> THEN NaN
    ELSE RDiv(SumSkipNa(s), Rat(Len(Present(s)), 1))

\* tickers = self.prices.columns.tolist()
EngineTickers == <<"A", "B", "C">>
Idx == DOMAIN EngineTickers

FDot(a, b) == FSum([n \in DOMAIN a |-> FMul(a[n], b[n])])
MatVec(M, x) == [r \in DOMAIN M |-> FDot(M[r], x)]

\* StrategyConfig(): risk_aversion 2.5 and tau 0.05, both validated gt 0;
\* the risk-free rate passed to the library calls.
ValidStrategyConfig(c) == RGt(c.risk_aversion, Zero) /\ RGt(c.tau, Zero)
config == [risk_aversion |-> Rat(5, 2), tau |-> Rat(1, 20)]
RISK_FREE_RATE == Rat(1, 25)

\* self.S, the Ledoit-Wolf covariance of the price matrix: a diagonal and a
\* correlated one.
DiagonalS ==
    <<<<Rat(4, 100), Zero, Zero>>,
      <<Zero, Rat(9, 100), Zero>>,
      <<Zero, Zero, Rat(16, 100)>>>>
CorrelatedS ==
    <<<<Rat(4, 100), Rat(1, 100), Zero>>,
      <<Rat(1, 100), Rat(9, 100), Rat(2, 100)>>,
      <<Zero, Rat(2, 100), Rat(16, 100)>>>>
Covariances == {DiagonalS, CorrelatedS}

\* market_caps: a mapping ticker -> cap that may lack tickers of the price
\* matrix and may hold a ticker that is not in it.
CapVals == {Zero, One, Rat(3, 1)}
MarketCaps ==
    LET inside == UNION {[D -> CapVals] :
                            D \in SUBSET {EngineTickers[n] : n \in Idx}}
    IN  inside \cup {f @@ ("ZZZ" :> Rat(9, 1)) : f \in inside}

\* pd.Series(market_caps).reindex(tickers)
Reindex(caps, tickers) ==
    [n \in DOMAIN tickers |->
        IF tickers[n] \in DOMAIN caps THEN caps[tickers[n]] ELSE NaN]

FillNaWithZero(s) ==
    [n \in DOMAIN s |-> IF NonFinite(s[n]) THEN Zero ELSE s[n]]

FillNaWithSum(s) ==
    [n \in DOMAIN s |-> IF NonFinite(s[n]) THEN SumSkipNa(s) ELSE s[n]]

\* if mcaps.isnull().any(): mcaps = mcaps.fillna(mcaps.mean())
FillNa(s) ==
    [n \in DOMAIN s |-> IF NonFinite(s[n]) THEN MeanSkipNa(s) ELSE s[n]]

\* black_litterman.market_implied_prior_returns(market_caps, risk_aversion,
\* cov_matrix, risk_free_rate): mkt_weights = mcaps / mcaps.sum();
\* risk_aversion * cov_matrix.dot(mkt_weights) + risk_free_rate. No check
\* of the sum is made and nothing is raised.
market_implied_prior_returns(caps, risk_aversion, cov_matrix, rf) ==
    LET total == SumSkipNa(caps)
        mkt_weights == [n \in DOMAIN caps |-> FDiv(caps[n], total)]
        dot == MatVec(cov_matrix, mkt_weights)
    IN  [n \in DOMAIN caps |-> FAdd(FMul(risk_aversion, dot[n]), rf)]

\* market_caps.sum() of the Series built from the mapping.
CapsSum(caps) ==
    SumSkipNa(Reindex(caps, SelectSeq(<<"A", "B", "C", "ZZZ">>,
                                      LAMBDA t : t \in DOMAIN caps)))

\* bl_math.compute_market_implied_prior(cov_matrix, market_caps,
\* risk_aversion, risk_free_rate): the caps are a Series over the keys of
\* the mapping; w_mkt = market_caps / market_caps.sum() is reindexed to the
\* covariance index and NaN is filled with 0.
compute_market_implied_prior(cov_matrix, caps, risk_aversion, rf) ==
    LET keys == DOMAIN caps
        total == CapsSum(caps)
        w_all == [t \in keys |-> FDiv(caps[t], total)]
        w_mkt == FillNaWithZero(Reindex(w_all, EngineTickers))
        prior == MatVec(cov_matrix, w_mkt)
    IN  [kind |-> "return",
         value |-> [n \in Idx |-> FAdd(FMul(risk_aversion, prior[n]), rf)]]

\* InvestorView objects handed to the engine: an absolute view, a relative
\* view, and a view on a ticker that is not a column of the price matrix.
ViewOnA ==
    [assets |-> <<"A">>, weights |-> <<One>>,
     expected_return |-> Rat(3, 10), confidence |-> Rat(17, 20)]
ViewAOverB ==
    [assets |-> <<"A", "B">>, weights |-> <<One, RNeg(One)>>,
     expected_return |-> Rat(1, 50), confidence |-> One]
ViewOffUniverse ==
    [assets |-> <<"ZZZ">>, weights |-> <<One>>,
     expected_return |-> Rat(1, 10), confidence |-> Rat(1, 2)]
ViewLists == {<<>>, <<ViewOnA>>, <<ViewAOverB>>, <<ViewOffUniverse>>}

\* _parse_views: Q[i] = view.expected_return; P[i, mapper[asset]] = weight
\* for the assets found in the ticker list; the confidences in order.
PickingRow(view, tickers) ==
    [j \in DOMAIN tickers |->
        IF \E n \in DOMAIN view.assets : view.assets[n] = tickers[j]
        THEN view.weights[CHOOSE n \in DOMAIN view.assets :
                /\ view.assets[n] = tickers[j]
                /\ \A m \in DOMAIN view.assets :
                      view.assets[m] = tickers[j] => m <= n]
        ELSE Zero]
parse_views(vs, tickers) ==
    [Q |-> [n \in DOMAIN vs |-> vs[n].expected_return],
     P |-> [n \in DOMAIN vs |-> PickingRow(vs[n], tickers)],
     confidences |-> [n \in DOMAIN vs |-> vs[n].confidence]]

ScaleMatrix(c, M) == [r \in DOMAIN M |-> [q \in DOMAIN M[r] |-> FMul(c, M[r][q])]]
AddMatrix(M1, M2) ==
    [r \in DOMAIN M1 |-> [q \in DOMAIN M1[r] |-> FAdd(M1[r][q], M2[r][q])]]

\* BlackLittermanModel(cov_matrix, pi, Q, P, omega="idzorek",
\* view_confidences, tau).bl_returns() / bl_cov() for at most one view:
\* omega = tau * (1 - c)/c * P S P', A = P tau S P' + omega = tau v / c,
\* returns = pi + tau S P' A^-1 (Q - P pi), cov = S + tau S -
\* tau S P' A^-1 P tau S. With no view row the sums over views are empty.
\* A = 0 (a picking row of zeros) is singular: the linear solve raises
\* LinAlgError, or, in library versions that fall back to least squares,
\* yields the zero solution.
Blended(vs, pi, S) ==
    LET parsed == parse_views(vs, EngineTickers)
        tauS == ScaleMatrix(config.tau, S)
        base == [Q |-> parsed.Q, P |-> parsed.P, model |-> "built"]
    IN  IF vs = <<>>
        THEN {base @@ [kind |-> "return", rets |-> pi,
                       cov |-> AddMatrix(S, tauS)]}
        ELSE
          LET p == parsed.P[1]
              c == parsed.confidences[1]
              SP == MatVec(S, p)
              v == FDot(p, SP)
              b == FSub(parsed.Q[1], FDot(p, pi))
              gain == FDiv(FMul(c, b), v)
              shrink == FDiv(FMul(config.tau, c), v)
          IN  IF v = Zero
              THEN {base @@ [kind |-> "raise", rets |-> <<>>, cov |-> <<>>],
                    base @@ [kind |-> "return", rets |-> pi,
                             cov |-> AddMatrix(S, tauS)]}
              ELSE {base @@
                    [kind |-> "return",
                     rets |-> [n \in Idx |-> FAdd(pi[n], FMul(SP[n], gain))],
                     cov |-> [r \in Idx |-> [q \in Idx |->
                                FSub(FAdd(S[r][q], tauS[r][q]),
                                     FMul(shrink, FMul(SP[r], SP[q])))]]]}

PosteriorAlwaysBlended(vs, pi, S) == Blended(vs, pi, S)

\* if not views: posterior_rets = market_prior; posterior_cov = self.S
\* else: _parse_views and the BlackLittermanModel.
Posterior(vs, pi, S) ==
    IF vs = <<>>
    THEN {[kind |-> "return", rets |-> pi, cov |-> S, Q |-> <<>>, P |-> <<>>,
           model |-> "none"]}
    ELSE Blended(vs, pi, S)

\* ef.max_sharpe, ef.portfolio_performance: the solver raises, or yields
\* long-only weights that sum to 1 with their performance triple.
Perf == [expected_return |-> Rat(1, 10), volatility |-> Rat(1, 5),
         sharpe_ratio |-> Rat(3, 10)]
SolverWeights ==
    {<<One, Zero, Zero>>,
     <<Rat(1, 2), Rat(1, 2), Zero>>,
     <<Rat(1, 3), Rat(1, 3), Rat(1, 3)>>,
     <<Rat(19999, 20000), Rat(1, 20000), Zero>>,
     <<Rat(3, 5), Rat(3999, 10000), Rat(1, 10000)>>}
SolverOutcomes ==
    {[kind |-> "raise", weights |-> <<>>]}
    \cup {[kind |-> "return", weights |-> w] : w \in SolverWeights}

\* ef.clean_weights() with the library defaults cutoff=1e-4, rounding=5:
\* weights with |w| < cutoff become 0, the rest is rounded to 5 decimals;
\* nothing is renormalised.
CUTOFF == Rat(1, 10000)
ROUNDING_UNIT == Rat(1, 100000)
Floor(x) == x[1] \div x[2]
Round5(x) ==
    RMul(Rat(Floor(RAdd(RDiv(x, ROUNDING_UNIT), Rat(1, 2))), 1), ROUNDING_UNIT)
clean_weights(w) ==
    [n \in DOMAIN w |->
        IF RLt(RAbs(w[n]), CUTOFF) THEN Zero ELSE Round5(w[n])]

\* _fallback_result(tickers)
fallback_result(tickers) ==
    [tickers |-> tickers, weights |-> [n \in DOMAIN tickers |-> Zero],
     expected_return |-> Zero, volatility |-> Zero, sharpe_ratio |-> Zero]

InitBL ==
    /\ ApplicationsIdle
    /\ self_S \in Covariances
    /\ market_caps \in MarketCaps
    /\ views \in ViewLists
    /\ mcaps = <<>>
    /\ market_prior = <<>>
    /\ Q = <<>>
    /\ P = <<>>
    /\ posterior_rets = <<>>
    /\ posterior_cov = <<>>
    /\ bl_model = "none"
    /\ bl_pc = "start"
    /\ bl_result = <<>>
    /\ bl_raised = "none"
    /\ np_prior = <<>>
    /\ ValidStrategyConfig(config)
    /\ RiskManagerIdle
    /\ BacktesterIdle
    /\ GeneratorsIdle

blInputs == <<self_S, market_caps, views>>

\* Lines 66-77: the caps are aligned to the tickers and the gaps are filled.
FillCaps ==
    /\ bl_pc = "start"
    /\ mcaps' = FillNa(Reindex(market_caps, EngineTickers))
    /\ bl_pc' = "prior"
    /\ UNCHANGED <<blInputs, market_prior, Q, P, posterior_rets,
                   posterior_cov, bl_model, bl_result, bl_raised, np_prior,
                   rmVars, btVars, vgVars,
                   appVars>>

\* Lines 79-87.
ComputePrior ==
    /\ bl_pc = "prior"
    /\ market_prior' =
          market_implied_prior_returns(mcaps, config.risk_aversion, self_S,
                                       RISK_FREE_RATE)
    /\ bl_pc' = "views"
    /\ UNCHANGED <<blInputs, mcaps, Q, P, posterior_rets, posterior_cov,
                   bl_model, bl_result, bl_raised, np_prior,
                   rmVars, btVars, vgVars,
                   appVars>>

\* Lines 89-112. Nothing here is inside a try: an exception of the library
\* leaves run_optimization.
Blend ==
    /\ bl_pc = "views"
    /\ \E o \in Posterior(views, market_prior, self_S) :
          /\ Q' = o.Q
          /\ P' = o.P
          /\ bl_model' = o.model
          /\ posterior_rets' = o.rets
          /\ posterior_cov' = o.cov
          /\ bl_pc' = IF o.kind = "raise" THEN "raised" ELSE "solve"
          /\ bl_raised' = IF o.kind = "raise" THEN "LinAlgError" ELSE "none"
    /\ UNCHANGED <<blInputs, mcaps, market_prior, bl_result, np_prior,
                   rmVars, btVars, vgVars,
                   appVars>>

\* Lines 119-135: the solve, the cleaning and the performance are inside
\* the try; any exception returns _fallback_result(tickers).
Solve ==
    /\ bl_pc = "solve"
    /\ \E o \in SolverOutcomes :
          bl_result' =
              IF o.kind = "raise" THEN fallback_result(EngineTickers)
              ELSE [tickers |-> EngineTickers,
                    weights |-> clean_weights(o.weights),
                    expected_return |-> Perf.expected_return,
                    volatility |-> Perf.volatility,
                    sharpe_ratio |-> Perf.sharpe_ratio]
    /\ bl_pc' = "returned"
    /\ UNCHANGED <<blInputs, mcaps, market_prior, Q, P, posterior_rets,
                   posterior_cov, bl_model, bl_raised, np_prior,
                   rmVars, btVars, vgVars,
                   appVars>>

\* A direct call of bl_math.compute_market_implied_prior on the same
\* covariance and caps.
ComputeMarketImpliedPrior ==
    /\ bl_pc = "start"
    /\ np_prior' =
          compute_market_implied_prior(self_S, market_caps,
                                       config.risk_aversion, RISK_FREE_RATE)
    /\ bl_pc' = "function_returned"
    /\ UNCHANGED <<blInputs, mcaps, market_prior, Q, P, posterior_rets,
                   posterior_cov, bl_model, bl_result, bl_raised,
                   rmVars, btVars, vgVars,
                   appVars>>

NextBL ==
    \/ FillCaps
    \/ ComputePrior
    \/ Blend
    \/ Solve
    \/ ComputeMarketImpliedPrior

SpecBL == InitBL /\ [][NextBL]_vars

PastFillCaps == bl_pc \in {"prior", "views", "solve", "raised", "returned"}
PastPrior == bl_pc \in {"views", "solve", "raised", "returned"}
PastBlend == bl_pc \in {"solve", "returned"}

\* ---------------------------------------------------------------------
\* C12: run_optimization never raises on a numerical failure; a failure of
\* the prior, of the posterior blending or of the solve ends in the
\* flight-to-safety result.
C12_NeverRaises ==
    /\ bl_pc # "raised"
    /\ bl_raised = "none"

C16_ZeroCapSumRaises ==
    /\ (PastPrior /\ SumSkipNa(mcaps) = Zero) =>
          (bl_raised = "DataIntegrityError" /\ market_prior = <<>>)
    /\ (bl_pc = "function_returned" /\ CapsSum(market_caps) = Zero) =>
          np_prior.kind = "raise"

\* ---------------------------------------------------------------------
\* C17: when the prior is computed every ticker of the price matrix has a
\* market cap: a ticker missing from the mapping has the mean of the caps
\* that are present, and no ticker has been removed.
PresentTickers == SelectSeq(EngineTickers, LAMBDA t : t \in DOMAIN market_caps)
PresentMean ==
    RDiv(SumSeq([n \in DOMAIN PresentTickers |-> market_caps[PresentTickers[n]]]),
         Rat(Len(PresentTickers), 1))

SUM_TOLERANCE == Rat(1, 1000000)

C18_WeightsSumToOneOrZero ==
    bl_pc = "returned" =>
        /\ \A n \in DOMAIN bl_result.weights :
              RLe(Zero, bl_result.weights[n])
        /\ \/ RLe(RAbs(RSub(SumSeq(bl_result.weights), One)), SUM_TOLERANCE)
           \/ \A n \in DOMAIN bl_result.weights : bl_result.weights[n] = Zero

NonCashSum ==
    SumSeq([j \in DOMAIN ret.weights |->
        IF ret.tickers[j] = CASH THEN Zero ELSE ret.weights[j]])

\* Every weight of the argument is below the dust threshold.
AllDust == \A j \in DOMAIN arg.weights : RLt(arg.weights[j], DUST)

\* C23: apply_guardrails multiplies the argument's expected_return and
\* volatility by the final equity sum, the sum of the non-cash weights after
\* the cap, and copies sharpe_ratio unchanged; when every position is
\* filtered as dust the returned expected_return and volatility are 0.
C23_MetricsScaledByEquitySum ==
    calls >= 1 =>
        /\ ret.expected_return = RMul(arg.expected_return, NonCashSum)
        /\ ret.volatility = RMul(arg.volatility, NonCashSum)
        /\ ret.sharpe_ratio = arg.sharpe_ratio
        /\ AllDust => (ret.expected_return = Zero /\ ret.volatility = Zero)

\* C26: after apply_guardrails with cash_buffer_pct in [0,1] the USDC weight
\* is at least cash_buffer_pct for every input, and it is exactly 1 with every
\* other weight 0 when every input weight is below 0.01 (in particular for
\* the optimizer's all-zero flight-to-safety result).
C26_CashAtLeastBuffer ==
    (calls >= 1 /\ RLe(Zero, cash_buffer) /\ RLe(cash_buffer, One)) =>
        /\ RLe(cash_buffer, RetWeight(CASH))
        /\ AllDust =>
              /\ RetWeight(CASH) = One
              /\ \A j \in DOMAIN ret.tickers :
                    ret.tickers[j] # CASH => ret.weights[j] = Zero

\* C26 witness: the all-zero flight-to-safety result went through a manager
\* with a cash buffer of 5% and came back as 100% USDC.
C26_Witness ==
    /\ calls = 1
    /\ cash_buffer = Rat(1, 20)
    /\ IndexOf(arg.tickers, CASH) = 0
    /\ \A j \in DOMAIN arg.weights : arg.weights[j] = Zero
    /\ RetWeight(CASH) = One

\* C26 witness: an input that stays fully invested up to the buffer, so the
\* USDC weight is the cash buffer itself.
C26_WitnessTight ==
    /\ calls = 1
    /\ cash_buffer = Rat(1, 20)
    /\ RetWeight(CASH) = cash_buffer

(***************************************************************************)
(* Further claims about run_optimization.                                  *)
(***************************************************************************)
\* The views of the call whose assets are all columns of the price matrix.
ActionableViews ==
    {n \in DOMAIN views :
        \A m \in DOMAIN views[n].assets :
            \E j \in DOMAIN EngineTickers : views[n].assets[m] = EngineTickers[j]}

\* C27: run_optimization blends only views it can act on: a view that names
\* an asset outside the price-matrix universe is dropped, so the picking
\* matrix P, the vector Q and the blend have one row per remaining view and
\* no row of P is all zero.
C27_OffUniverseViewDropped ==
    bl_pc \in {"solve", "raised", "returned"} =>
        /\ Len(P) = Cardinality(ActionableViews)
        /\ Len(Q) = Cardinality(ActionableViews)
        /\ \A n \in DOMAIN P : \E j \in DOMAIN P[n] : P[n][j] # Zero

(***************************************************************************)
(* Further claims about Backtester.run.                                    *)
(***************************************************************************)
\* The strategy's latest snapshot, or {USDC: 1.0} when it has none.
LatestSnapshot(s) ==
    IF weights_history[s] = <<>> THEN CashOnly
    ELSE weights_history[s][Len(weights_history[s])].weights

\* C28: the weight audit trail agrees with the committed weights at all
\* times.  In every step a snapshot is appended for a strategy exactly when
\* its committed weights are replaced (its rebalance returned a non-empty
\* mapping without raising), and then exactly one, dated with the boundary;
\* the snapshot dates of a strategy are strictly increasing rebalance
\* boundaries; a strategy's committed weights always equal its latest
\* snapshot, or {USDC: 1.0} when it has none; and the tables returned by run
\* hold the same snapshots in the same order.
C28_AuditTrailAgrees ==
    /\ [][\A s \in Names :
            LET replaced == outcome[s] = "pending" /\ outcome'[s] = "committed"
            IN  /\ replaced =>
                      /\ Len(weights_history'[s]) = Len(weights_history[s]) + 1
                      /\ SubSeq(weights_history'[s], 1, Len(weights_history[s]))
                            = weights_history[s]
                      /\ weights_history'[s][Len(weights_history'[s])]
                            = [Date |-> period_start,
                               weights |-> current_weights'[s]]
                /\ ~replaced =>
                      /\ weights_history'[s] = weights_history[s]
                      /\ current_weights'[s] = current_weights[s]]_vars
    /\ [](pc # "idle" =>
            \A s \in Names :
                /\ current_weights[s] = LatestSnapshot(s)
                /\ \A j \in DOMAIN weights_history[s] :
                      /\ \E b \in DOMAIN rebalance_dates :
                            weights_history[s][j].Date = rebalance_dates[b]
                      /\ j > 1 => weights_history[s][j - 1].Date
                                     < weights_history[s][j].Date)
    /\ [](pc = "done" =>
            \A s \in Names :
                IF weights_history[s] = <<>> THEN s \notin DOMAIN final_weights
                ELSE /\ s \in DOMAIN final_weights
                     /\ Len(final_weights[s]) = Len(weights_history[s])
                     /\ \A j \in DOMAIN weights_history[s] :
                           /\ final_weights[s][j].Date = weights_history[s][j].Date
                           /\ \A t \in DOMAIN final_weights[s][j].weights :
                                 final_weights[s][j].weights[t] =
                                    IF t \in DOMAIN weights_history[s][j].weights
                                    THEN weights_history[s][j].weights[t]
                                    ELSE Zero)

\* C28 witness: a finished run in which S1 was snapshotted at two boundaries
\* with different weights and S2 never committed.
C28_Witness ==
    /\ pc = "done"
    /\ Len(weights_history["S1"]) >= 2
    /\ weights_history["S1"][1].weights # weights_history["S1"][2].weights
    /\ current_weights["S1"] = weights_history["S1"][Len(weights_history["S1"])].weights
    /\ weights_history["S2"] = <<>>
    /\ current_weights["S2"] = CashOnly

\* The dates of the trading days after the first rebalance boundary and up
\* to the last one, in index order.
DaysInRange ==
    LET rows == SortedRows({r \in Rows :
                    /\ rebalance_dates[1] < full_dates[r]
                    /\ full_dates[r] <= rebalance_dates[Len(rebalance_dates)]})
    IN  [j \in DOMAIN rows |-> full_dates[rows[j]]]

\* C29: in the return series run builds for a strategy, every trading day
\* dated after the first rebalance boundary and up to the last one appears
\* exactly once, in order (the boundary day shared by two adjacent periods is
\* neither doubled nor skipped), and no other day appears: the days after the
\* last boundary are not in the cumulative-return curve.
C29_EachDayOnce ==
    pc = "done" =>
        \A s \in Names :
            IF NumPeriods = 0 THEN s \notin DOMAIN result_df
            ELSE /\ s \in DOMAIN result_df
                 /\ [j \in DOMAIN result_df[s] |-> result_df[s][j].date]
                       = DaysInRange

\* C29 witness: a finished run over at least two periods, whose inner
\* boundary day is in the curve, with a trading day before the first
\* boundary that is not.
C29_Witness ==
    /\ pc = "done"
    /\ NumPeriods >= 2
    /\ \E j \in DOMAIN result_df["S1"] :
          result_df["S1"][j].date = rebalance_dates[2]
    /\ Len(result_df["S1"]) < NRows - 1

\* C29 witness: a finished run with trading days after the last boundary.
C29_WitnessTrailing ==
    /\ pc = "done"
    /\ NumPeriods >= 1
    /\ rebalance_dates[Len(rebalance_dates)] < full_dates[NRows]
    /\ \A j \in DOMAIN result_df["S1"] :
          result_df["S1"][j].date < full_dates[NRows]

(***************************************************************************)
(* Production pipeline: main.run_production_pipeline from the optimizer's  *)
(* result to the signed oracle payload.                                    *)
(***************************************************************************)
\* dict(zip(tickers, weights)): of two equal tickers the later one wins.
DictZip(tickers, weights) ==
    [t \in {tickers[j] : j \in DOMAIN tickers} |->
        weights[CHOOSE j \in DOMAIN tickers :
            /\ tickers[j] = t
            /\ \A m \in DOMAIN tickers : tickers[m] = t => m <= j]]

\* int(x) on a float: truncation toward zero.
Trunc(x) == IF x[1] >= 0 THEN x[1] \div x[2] ELSE -((-x[1]) \div x[2])

\* weight_bps=int(weight * 10_000), in exact arithmetic.
WeightBps(weight) == Trunc(RMul(weight, Rat(10000, 1)))

\* NAVReporter.generate_payload: the parts of the OraclePayload that depend
\* on the allocation; risk_verified is the literal True.
generate_payload(allocation) ==
    [allocations |-> [t \in DOMAIN allocation |-> WeightBps(allocation[t])],
     total_assets |-> Cardinality(DOMAIN allocation),
     risk_verified |-> TRUE]

\* PortfolioRiskManager(cash_buffer_pct=0.05, max_weight_pct=0.30)
PipelineCashBuffer == Rat(1, 20)
PipelineMaxWeight == Rat(3, 10)

\* Results run_optimization hands to the pipeline: long-only weights in
\* steps of 20% that sum to 1, and the all-zero flight-to-safety result.
Fifths == {Rat(n, 5) : n \in 0..5}
PipelineWeights ==
    {w \in Fifths \X Fifths \X Fifths : RAdd(RAdd(w[1], w[2]), w[3]) = One}
PipelineResults ==
    {[tickers |-> EngineTickers, weights |-> w,
      expected_return |-> Perf.expected_return,
      volatility |-> Perf.volatility, sharpe_ratio |-> Perf.sharpe_ratio] :
        w \in PipelineWeights}
    \cup {fallback_result(EngineTickers)}

\* The pipeline after raw_result = engine.run_optimization(market_caps, views).
InitMN ==
    /\ no_risk \in BOOLEAN
    /\ raw_result \in PipelineResults
    /\ final_allocation = <<>>
    /\ payload = <<>>
    /\ mn_pc = "optimized"
    /\ RiskManagerIdle
    /\ BacktesterIdle
    /\ GeneratorsIdle
    /\ EngineIdle
    /\ MarketDataIdle
    /\ BoundaryIdle

\* if args.no_risk: the raw weights become the final allocation.
SkipRiskManagement ==
    /\ mn_pc = "optimized"
    /\ no_risk
    /\ final_allocation' = DictZip(raw_result.tickers, raw_result.weights)
    /\ mn_pc' = "allocated"
    /\ UNCHANGED <<no_risk, raw_result, payload, rmVars, btVars, vgVars,
                   blVars, mdVars, bdVars>>

\* else: the guardrailed weights become the final allocation.
ApplyRiskGuardrails ==
    /\ mn_pc = "optimized"
    /\ ~no_risk
    /\ LET risk_result == apply_guardrails(raw_result, PipelineCashBuffer,
                                           PipelineMaxWeight)
       IN  final_allocation' = DictZip(risk_result.tickers, risk_result.weights)
    /\ mn_pc' = "allocated"
    /\ UNCHANGED <<no_risk, raw_result, payload, rmVars, btVars, vgVars,
                   blVars, mdVars, bdVars>>

\* reporter.generate_payload(portfolio_id, allocation=final_allocation, nonce)
GeneratePayload ==
    /\ mn_pc = "allocated"
    /\ payload' = generate_payload(final_allocation)
    /\ mn_pc' = "reported"
    /\ UNCHANGED <<no_risk, raw_result, final_allocation, rmVars, btVars,
                   vgVars, blVars, mdVars, bdVars>>

NextMN == SkipRiskManagement \/ ApplyRiskGuardrails \/ GeneratePayload

SpecMN == InitMN /\ [][NextMN]_vars

\* C25: the risk_verified flag of a signed oracle payload states whether the
\* allocation passed the risk guardrails: a payload with risk_verified true
\* carries the allocation apply_guardrails returned, so a run with --no-risk
\* never produces a payload with risk_verified true.
C25_RiskVerifiedMeansGuarded ==
    (mn_pc = "reported" /\ payload.risk_verified) =>
        /\ ~no_risk
        /\ LET risk_result == apply_guardrails(raw_result, PipelineCashBuffer,
                                               PipelineMaxWeight)
           IN  /\ final_allocation =
                     DictZip(risk_result.tickers, risk_result.weights)
               /\ payload.allocations =
                     [t \in DOMAIN final_allocation |->
                         WeightBps(final_allocation[t])]

(***************************************************************************)
(* Market data: the MarketData record and DataProvider.validate_schema.    *)
(***************************************************************************)
\* The numeric fields of MarketData in the order the class declares them,
\* which is the order pydantic validates them in (ticker, trade_date and the
\* optional adj_close are left valid).
FieldOrder ==
    <<"open_price", "high_price", "low_price", "close_price", "volume">>

\* Field(..., gt=0) for the prices, Field(..., ge=0) for volume.
FieldConstraint(f, v) == IF f = "volume" THEN v >= 0 ELSE v > 0

\* @field_validator("high_price") high_must_not_be_below_low(cls, v, info):
\* raises when info.data has low_price and v is below it.  info.data holds
\* only the fields validated before the one at hand.
high_must_not_be_below_low(v, data) ==
    ~("low_price" \in DOMAIN data /\ v < data["low_price"])

\* Keyword arguments of MarketData(...): prices 0 (invalid), 1 and 2, and a
\* negative and a positive volume.
PriceVals == {0, 1, 2}
VolumeVals == {-1, 5}
Records ==
    {[open_price |-> o, high_price |-> h, low_price |-> l, close_price |-> c,
      volume |-> v] :
        o \in PriceVals, h \in PriceVals, l \in PriceVals, c \in PriceVals,
        v \in VolumeVals}

\* required_cols of validate_schema, and the column sets of the frames it is
\* given: complete, one column missing, one column in mixed case.
RequiredCols ==
    {"open_price", "high_price", "low_price", "close_price", "volume"}
Lower(c) == IF c = "High_Price" THEN "high_price" ELSE c
ColumnSets ==
    {RequiredCols \cup {"ticker"},
     RequiredCols \ {"low_price"},
     (RequiredCols \ {"high_price"}) \cup {"High_Price"}}

\* Either MarketData(**md_record) begins, or validate_schema(df) is called
\* on a frame with the columns md_columns holding the row md_record.
InitMD ==
    /\ md_record \in Records
    /\ md_data = <<>>
    /\ md_errors = {}
    /\ \/ md_pc = "validating" /\ md_pos = 1 /\ md_columns = {}
       \/ md_pc = "frame" /\ md_pos = 0 /\ md_columns \in ColumnSets
    /\ RiskManagerIdle
    /\ BacktesterIdle
    /\ GeneratorsIdle
    /\ EngineIdle
    /\ PipelineIdle
    /\ BoundaryIdle

\* One field of the record is validated: its constraint, then its validator;
\* a field that passes joins info.data, one that fails is reported.  After
\* the last field the record is constructed, or ValidationError is raised.
ValidateField ==
    /\ md_pc = "validating"
    /\ LET f == FieldOrder[md_pos]
           v == md_record[f]
           ok == /\ FieldConstraint(f, v)
                 /\ f = "high_price" => high_must_not_be_below_low(v, md_data)
       IN  /\ md_data' = IF ok THEN md_data @@ (f :> v) ELSE md_data
           /\ md_errors' = IF ok THEN md_errors ELSE md_errors \cup {f}
           /\ md_pc' = IF md_pos < Len(FieldOrder) THEN "validating"
                       ELSE IF md_errors' = {} THEN "constructed"
                       ELSE "rejected"
    /\ md_pos' = md_pos + 1
    /\ UNCHANGED <<md_record, md_columns, rmVars, btVars, vgVars, blVars,
                   mnVars, bdVars>>

\* validate_schema(df): True when every required column name is present
\* (compared in lower case), ValueError otherwise.
ValidateSchema ==
    /\ md_pc = "frame"
    /\ md_pc' = IF RequiredCols \subseteq {Lower(c) : c \in md_columns}
                THEN "schema_ok" ELSE "schema_rejected"
    /\ UNCHANGED <<md_record, md_data, md_errors, md_pos, md_columns, rmVars,
                   btVars, vgVars, blVars, mnVars, bdVars>>

NextMD == ValidateField \/ ValidateSchema

SpecMD == InitMD /\ [][NextMD]_vars

\* C24: market-data validation rejects a malformed record before it reaches
\* the core: a MarketData record whose high_price is below its low_price is
\* never constructed, and a frame holding such a row does not pass
\* validate_schema.
C24_HighBelowLowRejected ==
    md_pc \in {"constructed", "schema_ok"} =>
        md_record.high_price >= md_record.low_price

(***************************************************************************)
(* One rebalance boundary of Backtester.run over BLStrategy objects.       *)
(***************************************************************************)
\* history.columns, the engine's ticker list at the boundary.
BoundaryTickers == <<"A", "B">>

\* The dates of the previous boundary and of the boundary at hand.
BoundaryDates == <<1, 2>>

\* What engine.run_optimization does inside a strategy's rebalance: an
\* exception leaves it (as does one of the view generator), it returns the
\* flight-to-safety result, or it returns optimizer weights.
EngineOutcomes ==
    {[kind |-> "raise", result |-> NoResult],
     [kind |-> "return", result |-> fallback_result(BoundaryTickers)],
     [kind |-> "return",
      result |-> [tickers |-> BoundaryTickers,
                  weights |-> <<Rat(7, 10), Rat(3, 10)>>,
                  expected_return |-> Perf.expected_return,
                  volatility |-> Perf.volatility,
                  sharpe_ratio |-> Perf.sharpe_ratio]]}

\* A strategy that hands the raw result on whether or not it has a manager.
PassRawResult(risk_manager, raw_res) ==
    DictZip(raw_res.tickers, raw_res.weights)

\* BaseStrategy._apply_risk_or_pass; the manager is the one run_backtest.py
\* builds, PortfolioRiskManager(cash_buffer_pct=0.05, max_weight_pct=0.30).
ApplyRiskOrPass(risk_manager, raw_res) ==
    IF risk_manager
    THEN LET adjusted == apply_guardrails(raw_res, PipelineCashBuffer,
                                          PipelineMaxWeight)
         IN  DictZip(adjusted.tickers, adjusted.weights)
    ELSE DictZip(raw_res.tickers, raw_res.weights)

\* BLStrategy.rebalance: the result of run_optimization through
\* _apply_risk_or_pass, or {} when anything in the try block raised.
BLRebalance(strat, eo) ==
    IF eo.kind = "raise"
    THEN [kind |-> "return", weights |-> EmptyWeights]
    ELSE [kind |-> "return",
          weights |-> ApplyRiskOrPass(strat.risk_manager, eo.result)]

\* Lists of two registered strategies: names are free text given to the
\* constructor, with or without a risk manager.
BoundaryNames == {"S1", "S2"}
StrategyObjects ==
    {[name |-> n, risk_manager |-> r] : n \in BoundaryNames, r \in BOOLEAN}
StrategyLists == StrategyObjects \X StrategyObjects

NamesOf(list) == {list[j].name : j \in DOMAIN list}

\* current_weights and weights_history when the boundary begins: the state of
\* a first boundary, or equal weights committed at the previous boundary.
HalfHalf == ("A" :> Rat(1, 2)) @@ ("B" :> Rat(1, 2))
StatesBefore(list) ==
    {[cw |-> [n \in NamesOf(list) |-> CashOnly],
      wh |-> [n \in NamesOf(list) |-> <<>>]],
     [cw |-> [n \in NamesOf(list) |-> HalfHalf],
      wh |-> [n \in NamesOf(list) |->
                 <<[Date |-> BoundaryDates[1], weights |-> HalfHalf]>>]]}

\* for strat in self.strategies: the first n passes of the loop at the
\* boundary, in list order.
RECURSIVE InListOrder(_, _, _, _)
InListOrder(before, list, engine, n) ==
    IF n = 0 THEN before
    ELSE LET sofar == InListOrder(before, list, engine, n - 1)
             o == BLRebalance(list[n], engine[n])
         IN  [cw |-> Commit(sofar.cw, list[n].name, o),
              wh |-> Snapshot(sofar.wh, list[n].name, o, BoundaryDates[2])]

InitBD ==
    /\ bd_strategies \in StrategyLists
    /\ bd_engine \in EngineOutcomes \X EngineOutcomes
    /\ bd_prev \in StatesBefore(bd_strategies)
    /\ bd_cw = bd_prev.cw
    /\ bd_wh = bd_prev.wh
    /\ bd_done = {}
    /\ RiskManagerIdle
    /\ BacktesterIdle
    /\ GeneratorsIdle
    /\ EngineIdle
    /\ PipelineIdle
    /\ MarketDataIdle

\* One strategy's pass of lines 73-87, for any strategy not yet called at
\* this boundary: the passes are taken in every order.
RebalanceOne ==
    /\ \E j \in DOMAIN bd_strategies \ bd_done :
          LET o == BLRebalance(bd_strategies[j], bd_engine[j])
          IN  /\ bd_cw' = Commit(bd_cw, bd_strategies[j].name, o)
              /\ bd_wh' = Snapshot(bd_wh, bd_strategies[j].name, o,
                                   BoundaryDates[2])
              /\ bd_done' = bd_done \cup {j}
    /\ UNCHANGED <<bd_strategies, bd_engine, bd_prev, rmVars, btVars, vgVars,
                   blVars, mnVars, mdVars>>

NextBD == RebalanceOne

SpecBD == InitBD /\ [][NextBD]_vars

\* Every strategy of the list has been called at the boundary.
BoundaryDone == bd_strategies # <<>> /\ bd_done = DOMAIN bd_strategies

\* C21: within one rebalance boundary the strategies are independent: for
\* any list of registered strategies, the committed weights and snapshot
\* logs of all strategies after the boundary are the same for every order in
\* which the rebalance calls are evaluated, namely those of the list order.
C21_OrderIndependent ==
    BoundaryDone =>
        [cw |-> bd_cw, wh |-> bd_wh] =
            InListOrder(bd_prev, bd_strategies, bd_engine, Len(bd_strategies))

\* C30: a BLStrategy boundary where the optimizer returns the
\* flight-to-safety result replaces the strategy's committed weights by an
\* allocation with zero weight on every risk asset (100% USDC when a risk
\* manager is configured) and appends a snapshot of it; a boundary where
\* rebalance fails with an exception leaves the committed weights in force
\* and appends no snapshot.
C30_FallbackCommitsFailureRetains ==
    [][\A j \in DOMAIN bd_strategies :
          (j \notin bd_done /\ j \in bd_done') =>
              LET s == bd_strategies[j].name
                  eo == bd_engine[j]
              IN  /\ (/\ eo.kind = "return"
                      /\ eo.result = fallback_result(BoundaryTickers)) =>
                        /\ \A n \in DOMAIN BoundaryTickers :
                              /\ BoundaryTickers[n] \in DOMAIN bd_cw'[s]
                              /\ bd_cw'[s][BoundaryTickers[n]] = Zero
                        /\ bd_strategies[j].risk_manager =>
                              /\ CASH \in DOMAIN bd_cw'[s]
                              /\ bd_cw'[s][CASH] = One
                        /\ bd_wh'[s] =
                              Append(bd_wh[s], [Date |-> BoundaryDates[2],
                                                weights |-> bd_cw'[s]])
                  /\ eo.kind = "raise" =>
                        /\ bd_cw'[s] = bd_cw[s]
                        /\ bd_wh'[s] = bd_wh[s]]_vars

\* C30 witness: of two strategies holding equal weights from the previous
\* boundary, the one with a risk manager got the flight-to-safety result and
\* now holds 100% USDC with a second snapshot, and the other one failed and
\* still holds its equal weights with its one snapshot.
C30_Witness ==
    /\ BoundaryDone
    /\ bd_strategies[1].name # bd_strategies[2].name
    /\ bd_strategies[1].risk_manager
    /\ bd_engine[1].kind = "return"
    /\ bd_engine[1].result = fallback_result(BoundaryTickers)
    /\ bd_engine[2].kind = "raise"
    /\ bd_prev.cw[bd_strategies[1].name] = HalfHalf
    /\ bd_cw[bd_strategies[1].name] = ("A" :> Zero) @@ ("B" :> Zero) @@ (CASH :> One)
    /\ Len(bd_wh[bd_strategies[1].name]) = 2
    /\ bd_cw[bd_strategies[2].name] = HalfHalf
    /\ Len(bd_wh[bd_strategies[2].name]) = 1
====
